---- MODULE Spec2Model ----
(***************************************************************************)
(* repl-trace-checker: merge per-server mongod logs by timestamp,          *)
(* translate every trace line to a LogEvent and fold the events into a     *)
(* trace of SystemState snapshots that is handed to the Trace.tla          *)
(* template.                                                               *)
(*                                                                         *)
(* Modelled sources: src/parse_log.py (merge_log_streams, LogLine,         *)
(* parse_log_line) and src/repl-trace-checker.py (update_state, main).     *)
(* system_state.py (PortMapper, OplogIndexMapper, ServerState) is not part *)
(* of the sources at hand; those three are modelled from the written       *)
(* specification of the repository.                                        *)
(***************************************************************************)
EXTENDS Integers, Sequences, FiniteSets, TLC

(***************************************************************************)
(* Bounds of the model.                                                    *)
(***************************************************************************)
\* Total number of matching lines the generators read in one run.
MaxLines == 3
\* Largest step between the timestamps of two consecutive lines of a file.
MaxDelta == 1
\* Largest optime that occurs in a reported oplog (optimes are 1..MaxOptime).
MaxOptime == 2

VARIABLES
    files,               \* args.logfile: the names of the streams and what their lines may hold
    line_number,         \* gen(stream).line_number, per source
    last_ts,             \* timestamp of the last matching line of each source
    head,                \* heapq.merge: the value each live iterator has in the heap
    need,                \* heapq.merge: the iterators next() is called on before the next yield
    read,                \* history: the LogLines each gen(stream) has yielded
    out,                 \* history: the LogLines merge_log_streams has yielded
    port_mapper,         \* main.port_mapper
    oplog_index_mapper,  \* main.oplog_index_mapper
    events,              \* history: the LogEvents parse_log_line has returned
    trace,               \* main.trace
    current_state,       \* main.current_state
    rendered,            \* the trace argument of tla_template.render, once called
    pc,                  \* position of main: "loop", "done" or "aborted"
    exit_code            \* exit status of the process

vars == <<files, line_number, last_ts, head, need, read, out, port_mapper,
          oplog_index_mapper, events, trace, current_state, rendered, pc,
          exit_code>>

Range(s) == {s[k] : k \in DOMAIN s}

(***************************************************************************)
(* Strings that are compared are sequences of character codes.             *)
(***************************************************************************)
RECURSIVE Digits(_)
\* str(n) of a non-negative int, as character codes ('0' is 48).
Digits(n) == IF n < 10 THEN <<48 + n>> ELSE Digits(n \div 10) \o <<48 + (n % 10)>>

\* f'{stream.name}:{line_number}' (':' is 58).
Location(name, n) == name \o <<58>> \o Digits(n)

\* Python's < on two sequences: lexicographic, a proper prefix is smaller.
SeqLess(s, t) ==
    \E k \in 1..(Len(t)) :
        /\ \A j \in 1..(k - 1) : j <= Len(s) /\ s[j] = t[j]
        /\ k - 1 <= Len(s)
        /\ (k > Len(s) \/ s[k] < t[k])

(***************************************************************************)
(* The decoded payload of a trace line (LogLine.obj):                      *)
(*   [action, host = <<name, port>>, state = [term, serverState,           *)
(*    commitPoint = [ts, t], log = <<[ts, t], ...>>]]                      *)
(* and the text of the line, the characters being the values it holds.     *)
(***************************************************************************)
LabelCode(label) ==
    CASE label = "BecomePrimaryByMagic" -> 1
      [] label = "AppendOplog" -> 2
      [] label = "Follower" -> 3
      [] label = "Candidate" -> 4
      [] label = "Leader" -> 5
      [] OTHER -> 6

RECURSIVE LogText(_)
LogText(log) ==
    IF log = <<>> THEN <<>>
    ELSE <<Head(log).ts, Head(log).t + 2>> \o LogText(Tail(log))

\* The raw line: it starts with the timestamp, the JSON document follows.
LineText(timestamp, obj) ==
    <<timestamp, LabelCode(obj.action), obj.host[2], obj.state.term + 2,
      LabelCode(obj.state.serverState), obj.state.commitPoint.ts,
      obj.state.commitPoint.t + 2>> \o LogText(obj.state.log)

LogLine(timestamp, location, line, obj) ==
    [timestamp |-> timestamp, location |-> location, line |-> line, obj |-> obj]

\* dataclass(order=True): a < b compares (timestamp, location, line, obj) as
\* tuples; obj is a dict, and < on two unequal dicts raises TypeError.
CompareRaises(a, b) ==
    /\ a.timestamp = b.timestamp
    /\ a.location = b.location
    /\ a.line = b.line
    /\ a.obj # b.obj

\* LogLine ordered by its timestamp alone.
LogLineLess_TimestampOnly(a, b) == a.timestamp < b.timestamp

LogLineLess(a, b) ==
    IF a.timestamp # b.timestamp THEN a.timestamp < b.timestamp
    ELSE IF a.location # b.location THEN SeqLess(a.location, b.location)
    ELSE IF a.line # b.line THEN SeqLess(a.line, b.line)
    ELSE FALSE

\* heapq.merge keeps [value, order, next] lists in its heap: the value
\* decides, and between equal values the position of the iterator.
EntryLess(va, oa, vb, ob) ==
    IF va = vb THEN oa < ob ELSE LogLineLess(va, vb)

\* The streams chained one after the other instead of merged.
HeapMins_Chained(h) ==
    {i \in DOMAIN h : h[i] # <<>> /\ \A j \in DOMAIN h : h[j] # <<>> => i <= j}

\* The iterators whose heap entry no other entry is smaller than: h[0].
HeapMins(h) ==
    {i \in DOMAIN h :
        /\ h[i] # <<>>
        /\ \A j \in DOMAIN h \ {i} :
              h[j] # <<>> => ~EntryLess(h[j][1], j, h[i][1], i)}

HeapRaises(h) ==
    \E i, j \in DOMAIN h :
        /\ i # j /\ h[i] # <<>> /\ h[j] # <<>>
        /\ CompareRaises(h[i][1], h[j][1])

(***************************************************************************)
(* system_state.py: PortMapper, OplogIndexMapper and ServerState.          *)
(***************************************************************************)
\* The null optime Timestamp(0, 0) of an empty oplog; the mapper knows it
\* as index 0 from its construction.
NullOptime == 0

\* PortMapper(): the ports in the order they were first seen.
NewPortMapper == <<>>

\* port_mapper.get_server_id(port): the id and the mapper afterwards.
GetServerId(pm, port) ==
    IF \E k \in DOMAIN pm : pm[k] = port
    THEN [id |-> (CHOOSE k \in DOMAIN pm : pm[k] = port) - 1, pm |-> pm]
    ELSE [id |-> Len(pm), pm |-> Append(pm, port)]

\* OplogIndexMapper(): a function from the registered optimes to indexes.
NewOplogIndexMapper == (NullOptime :> 0)

\* oplog_index_mapper.set_index(ts, index): ok is FALSE when it raises.
SetIndex(m, ts, index) ==
    IF ts \in DOMAIN m
    THEN [ok |-> m[ts] = index, m |-> m]
    ELSE [ok |-> TRUE, m |-> (ts :> index) @@ m]

\* oplog_index_mapper.get_index(ts) raises for an optime never registered.
GetIndexRaises(m, ts) == ts \notin DOMAIN m

GetIndex(m, ts) == m[ts]

\* The member names of the ServerState enum.
ServerStateNames == {"Follower", "Candidate", "Leader"}

(***************************************************************************)
(* parse_log.parse_log_line                                                *)
(***************************************************************************)
\* The host name taken for the port.
PortOf_Host(obj) == obj.host[1]

\* int(trace['host'].split(':')[1])
PortOf(obj) == obj.host[2]

RECURSIVE RegisterLog(_, _, _)
\* generate_oplog_entries: set_index(entry['ts'], index) for the entries
\* from position index (0-based) on, until one raises.
RegisterLog(m, log, index) ==
    IF index >= Len(log) THEN [ok |-> TRUE, m |-> m]
    ELSE LET r == SetIndex(m, log[index + 1].ts, index)
         IN  IF r.ok THEN RegisterLog(r.m, log, index + 1) ELSE r

\* OplogEntry(term=entry['t']) for every entry.
OplogEntries(log) == [k \in DOMAIN log |-> [term |-> log[k].t]]

\* Every negative term taken for the sentinel.
fixup_term_Negative(term) == IF term < 0 THEN 0 ELSE term

fixup_term(term) == IF term = -1 THEN 0 ELSE term

\* An unknown role label let through.
ServerStateRaises_Never(label) == FALSE

\* ServerState[raft_mongo['serverState']] raises KeyError for other names.
ServerStateRaises(label) == label \notin ServerStateNames

\* parse_log_line looking the commit point up before it walks the oplog.
ParseLogLine_ResolveFirst(log_line, pm, om) ==
    LET trace_obj  == log_line.obj
        raft_mongo == trace_obj.state
        port       == PortOf(trace_obj)
        reg        == RegisterLog(om, raft_mongo.log, 0)
        sid        == GetServerId(pm, port)
    IN  IF ~reg.ok
        THEN [ok |-> FALSE, port_mapper |-> pm, oplog_index_mapper |-> reg.m]
        ELSE IF GetIndexRaises(om, raft_mongo.commitPoint.ts)
        THEN [ok |-> FALSE, port_mapper |-> pm, oplog_index_mapper |-> reg.m]
        ELSE IF ServerStateRaises(raft_mongo.serverState)
        THEN [ok |-> FALSE, port_mapper |-> sid.pm, oplog_index_mapper |-> reg.m]
        ELSE [ok |-> TRUE, port_mapper |-> sid.pm, oplog_index_mapper |-> reg.m,
              event |-> [timestamp   |-> log_line.timestamp,
                         location    |-> log_line.location,
                         line        |-> log_line.line,
                         action      |-> trace_obj.action,
                         server_id   |-> sid.id,
                         term        |-> fixup_term(raft_mongo.term),
                         state       |-> raft_mongo.serverState,
                         commitPoint |->
                             [term  |-> fixup_term(raft_mongo.commitPoint.t),
                              index |-> GetIndex(om, raft_mongo.commitPoint.ts)],
                         log         |-> OplogEntries(raft_mongo.log)]]

\* The LogEvent of a LogLine, or the exception that ends the run; in both
\* cases with the two mappers as the call leaves them.
ParseLogLine(log_line, pm, om) ==
    LET trace_obj  == log_line.obj
        raft_mongo == trace_obj.state
        port       == PortOf(trace_obj)
        reg        == RegisterLog(om, raft_mongo.log, 0)
        sid        == GetServerId(pm, port)
    IN  IF ~reg.ok
        THEN [ok |-> FALSE, port_mapper |-> pm, oplog_index_mapper |-> reg.m]
        ELSE IF GetIndexRaises(reg.m, raft_mongo.commitPoint.ts)
        THEN [ok |-> FALSE, port_mapper |-> pm, oplog_index_mapper |-> reg.m]
        ELSE IF ServerStateRaises(raft_mongo.serverState)
        THEN [ok |-> FALSE, port_mapper |-> sid.pm, oplog_index_mapper |-> reg.m]
        ELSE [ok |-> TRUE, port_mapper |-> sid.pm, oplog_index_mapper |-> reg.m,
              event |-> [timestamp   |-> log_line.timestamp,
                         location    |-> log_line.location,
                         line        |-> log_line.line,
                         action      |-> trace_obj.action,
                         server_id   |-> sid.id,
                         term        |-> fixup_term(raft_mongo.term),
                         state       |-> raft_mongo.serverState,
                         commitPoint |->
                             [term  |-> fixup_term(raft_mongo.commitPoint.t),
                              index |-> GetIndex(reg.m, raft_mongo.commitPoint.ts)],
                         log         |-> OplogEntries(raft_mongo.log)]]

(***************************************************************************)
(* repl-trace-checker: update_state and the initial state of main.  A      *)
(* tuple indexed by server id 0..n-1 is a sequence indexed 1..n.           *)
(***************************************************************************)
\* A server id past the end of the list let through.
IndexRaises_Never(current, log_event) == FALSE

\* next_log[log_event.server_id] = ... on a list of n_servers entries.
IndexRaises(current, log_event) == log_event.server_id >= Len(current.log)

\* update_state that keeps the largest term seen as the global term.
update_state_MaxTerm(current, log_event) ==
    [n_servers         |-> current.n_servers,
     action            |-> log_event.action,
     globalCurrentTerm |-> IF log_event.term > current.globalCurrentTerm
                           THEN log_event.term ELSE current.globalCurrentTerm,
     log               |-> [current.log EXCEPT ![log_event.server_id + 1] = log_event.log],
     state             |-> [current.state EXCEPT ![log_event.server_id + 1] = log_event.state],
     commitPoint       |-> [current.commitPoint EXCEPT
                               ![log_event.server_id + 1] = log_event.commitPoint],
     serverLogLocation |-> log_event.location]

\* update_state that leaves the global term as it was.
update_state_KeepsTerm(current, log_event) ==
    [n_servers         |-> current.n_servers,
     action            |-> log_event.action,
     globalCurrentTerm |-> current.globalCurrentTerm,
     log               |-> [current.log EXCEPT ![log_event.server_id + 1] = log_event.log],
     state             |-> [current.state EXCEPT ![log_event.server_id + 1] = log_event.state],
     commitPoint       |-> [current.commitPoint EXCEPT
                               ![log_event.server_id + 1] = log_event.commitPoint],
     serverLogLocation |-> log_event.location]

update_state(current, log_event) ==
    [n_servers         |-> current.n_servers,
     action            |-> log_event.action,
     globalCurrentTerm |-> log_event.term,
     log               |-> [current.log EXCEPT ![log_event.server_id + 1] = log_event.log],
     state             |-> [current.state EXCEPT ![log_event.server_id + 1] = log_event.state],
     commitPoint       |-> [current.commitPoint EXCEPT
                               ![log_event.server_id + 1] = log_event.commitPoint],
     serverLogLocation |-> log_event.location]

InitialState(n_servers) ==
    [n_servers         |-> n_servers,
     action            |-> "Init",
     globalCurrentTerm |-> -1,
     log               |-> [k \in 1..n_servers |-> <<>>],
     state             |-> [k \in 1..n_servers |-> "Follower"],
     commitPoint       |-> [k \in 1..n_servers |-> [term |-> -1, index |-> 0]],
     serverLogLocation |-> <<>>]

(***************************************************************************)
(* The log files of a run.  A class of files gives the names of the        *)
(* streams (args.logfile, in order) and what a matching line may hold:     *)
(* the step of its timestamp from the line before it in the same file      *)
(* (never negative: a server writes its log in time order), the number of  *)
(* lines without a trace record skipped before it, and its payload.        *)
(***************************************************************************)
Obj(action, port, term, label, cp_ts, cp_t, log) ==
    [action |-> action,
     host   |-> <<"localhost", port>>,
     state  |-> [term |-> term, serverState |-> label,
                 commitPoint |-> [ts |-> cp_ts, t |-> cp_t],
                 log |-> log]]

Objs(actions, ports, terms, labels, cp_tss, cp_ts, logs) ==
    {Obj(a, p, t, l, c, ct, lg) :
        a \in actions, p \in ports, t \in terms, l \in labels,
        c \in cp_tss, ct \in cp_ts, lg \in logs}

\* The oplogs of at most n entries over the given optimes, written in term 1.
Oplogs(optimes, n) ==
    UNION {{[k \in 1..len |-> [ts |-> f[k], t |-> 1]] : f \in [1..len -> optimes]} :
              len \in 0..n}

Optimes == 1..MaxOptime
Deltas == 0..MaxDelta

\* Three servers that only become primary: the merge decides everything.
MergeFiles ==
    [names  |-> << <<98>>, <<97>>, <<99>> >>,
     deltas |-> Deltas,
     skips  |-> {0, 8},
     objs   |-> Objs({"BecomePrimaryByMagic"}, {27017}, {1}, {"Leader"},
                     {NullOptime}, {-1}, {<<>>})]

\* Two files, lines of up to three ports.
PortFiles ==
    [names  |-> << <<97>>, <<98>> >>,
     deltas |-> Deltas,
     skips  |-> {0},
     objs   |-> Objs({"BecomePrimaryByMagic"}, {27017, 27018, 27019}, {1},
                     {"Leader"}, {NullOptime}, {-1}, {<<>>})]

\* One file: terms, commit point terms and role labels of every kind.
TermFiles ==
    [names  |-> << <<97>> >>,
     deltas |-> {1},
     skips  |-> {0},
     objs   |-> Objs({"BecomePrimaryByMagic"}, {27017}, {-2, -1, 0, 1},
                     {"Leader", "Arbiter"}, {NullOptime}, {-1, 1}, {<<>>})]

\* One file, one server: every oplog of at most two entries.
IndexFiles ==
    [names  |-> << <<97>> >>,
     deltas |-> {1},
     skips  |-> {0},
     objs   |-> Objs({"AppendOplog"}, {27017}, {1}, {"Leader"},
                     {NullOptime}, {-1}, Oplogs(Optimes, 2))]

\* Two files, two servers: commit points inside and outside the oplogs.
CommitFiles ==
    [names  |-> << <<97>>, <<98>> >>,
     deltas |-> {1},
     skips  |-> {0},
     objs   |-> Objs({"AppendOplog"}, {27017, 27018}, {1}, {"Follower"},
                     {NullOptime, 1}, {1}, Oplogs({1}, 1))]

\* One file, one server: the commit point at optime 2, in or out of the oplog.
ResolveFiles ==
    [names  |-> << <<97>> >>,
     deltas |-> {1},
     skips  |-> {0},
     objs   |-> Objs({"AppendOplog"}, {27017}, {1}, {"Leader"},
                     {2}, {1}, Oplogs(Optimes, 2))]

FileClasses ==
    {MergeFiles, PortFiles, TermFiles, IndexFiles, CommitFiles, ResolveFiles}

Sources == DOMAIN files.names
n_servers == Len(files.names)

\* The matching lines read so far: each is in the heap or was yielded.
LinesRead == Len(out) + Cardinality({i \in Sources : head[i] # <<>>})

Min(S) == CHOOSE x \in S : \A y \in S : x <= y

(***************************************************************************)
(* main, up to the loop: the mappers, the initial state, and the merge     *)
(* about to call next() on every gen(stream) in turn.                      *)
(***************************************************************************)
Init ==
    /\ files \in FileClasses
    /\ line_number = [i \in Sources |-> 0]
    /\ last_ts = [i \in Sources |-> 0]
    /\ head = [i \in Sources |-> <<>>]
    /\ need = Sources
    /\ read = [i \in Sources |-> <<>>]
    /\ out = <<>>
    /\ port_mapper = NewPortMapper
    /\ oplog_index_mapper = NewOplogIndexMapper
    /\ events = <<>>
    /\ trace = <<>>
    /\ current_state = InitialState(n_servers)
    /\ rendered = <<>>
    /\ pc = "loop"
    /\ exit_code = <<>>

(***************************************************************************)
(* gen(stream), run by the merge's call of next() until it yields a        *)
(* LogLine, ends at the end of the file, or exits on invalid JSON.         *)
\* gen(stream) read on whether or not the merge asked for its next line.
Gen_ReadAhead(i) ==
    /\ pc = "loop"
    /\ i \in Sources
    /\ \/ \* the file has no further matching line: StopIteration
          /\ head' = [head EXCEPT ![i] = <<>>]
          /\ need' = need \ {i}
          /\ UNCHANGED <<line_number, last_ts, read, pc, exit_code>>
       \/ \E skip \in files.skips, delta \in files.deltas :
            LET n  == line_number[i] + skip + 1
                ts == last_ts[i] + delta
            IN  /\ LinesRead < MaxLines
                /\ line_number' = [line_number EXCEPT ![i] = n]
                /\ \/ \* json_util.loads raises JSONDecodeError: sys.exit(2)
                      /\ pc' = "aborted"
                      /\ exit_code' = <<2>>
                      /\ UNCHANGED <<last_ts, head, need, read>>
                   \/ \E obj \in files.objs :
                        LET log_line == LogLine(ts, Location(files.names[i], n),
                                                LineText(ts, obj), obj)
                        IN  /\ head' = [head EXCEPT ![i] = <<log_line>>]
                            /\ read' = [read EXCEPT ![i] = Append(@, log_line)]
                            /\ last_ts' = [last_ts EXCEPT ![i] = ts]
                            /\ need' = need \ {i}
                            /\ UNCHANGED <<pc, exit_code>>
    /\ UNCHANGED <<files, out, port_mapper, oplog_index_mapper, events, trace,
                   current_state, rendered>>

(***************************************************************************)
Gen(i) ==
    /\ pc = "loop"
    /\ need # {}
    /\ i = Min(need)
    /\ \/ \* the file has no further matching line: StopIteration
          /\ head' = [head EXCEPT ![i] = <<>>]
          /\ need' = need \ {i}
          /\ UNCHANGED <<line_number, last_ts, read, pc, exit_code>>
       \/ \E skip \in files.skips, delta \in files.deltas :
            LET n  == line_number[i] + skip + 1
                ts == last_ts[i] + delta
            IN  /\ LinesRead < MaxLines
                /\ line_number' = [line_number EXCEPT ![i] = n]
                /\ \/ \* json_util.loads raises JSONDecodeError: sys.exit(2)
                      /\ pc' = "aborted"
                      /\ exit_code' = <<2>>
                      /\ UNCHANGED <<last_ts, head, need, read>>
                   \/ \E obj \in files.objs :
                        LET log_line == LogLine(ts, Location(files.names[i], n),
                                                LineText(ts, obj), obj)
                        IN  /\ head' = [head EXCEPT ![i] = <<log_line>>]
                            /\ read' = [read EXCEPT ![i] = Append(@, log_line)]
                            /\ last_ts' = [last_ts EXCEPT ![i] = ts]
                            /\ need' = need \ {i}
                            /\ UNCHANGED <<pc, exit_code>>
    /\ UNCHANGED <<files, out, port_mapper, oplog_index_mapper, events, trace,
                   current_state, rendered>>

(***************************************************************************)
(* One iteration of the loop of main: the merge yields the smallest entry  *)
(* of its heap, parse_log_line translates it, the current state is         *)
(* appended to the trace and update_state replaces it.  An exception       *)
(* leaves main and the process.                                            *)
\* The loop appending the state after update_state instead of the one before.
LoopBody_AppendAfter ==
    /\ pc = "loop"
    /\ need = {}
    /\ \E i \in HeapMins(head) :
        LET log_line == head[i][1]
            r        == ParseLogLine(log_line, port_mapper, oplog_index_mapper)
        IN  IF HeapRaises(head)
            THEN /\ pc' = "aborted"
                 /\ exit_code' = <<1>>
                 /\ UNCHANGED <<head, need, out, port_mapper, oplog_index_mapper,
                                events, trace, current_state>>
            ELSE /\ out' = Append(out, log_line)
                 /\ head' = [head EXCEPT ![i] = <<>>]
                 /\ need' = {i}
                 /\ port_mapper' = r.port_mapper
                 /\ oplog_index_mapper' = r.oplog_index_mapper
                 /\ IF ~r.ok
                    THEN /\ pc' = "aborted"
                         /\ exit_code' = <<1>>
                         /\ UNCHANGED <<events, trace, current_state>>
                    ELSE /\ events' = Append(events, r.event)
                         /\ IF IndexRaises(current_state, r.event)
                            THEN /\ pc' = "aborted"
                                 /\ exit_code' = <<1>>
                                 /\ trace' = Append(trace, current_state)
                                 /\ UNCHANGED current_state
                            ELSE /\ current_state' = update_state(current_state, r.event)
                                 /\ trace' = Append(trace, current_state')
                                 /\ UNCHANGED <<pc, exit_code>>
    /\ UNCHANGED <<files, line_number, last_ts, read, rendered>>

\* The loop with an update_state that writes into the state it is given:
\* every entry of the trace is that one object.
LoopBody_InPlace ==
    /\ pc = "loop"
    /\ need = {}
    /\ \E i \in HeapMins(head) :
        LET log_line == head[i][1]
            r        == ParseLogLine(log_line, port_mapper, oplog_index_mapper)
        IN  IF HeapRaises(head)
            THEN /\ pc' = "aborted"
                 /\ exit_code' = <<1>>
                 /\ UNCHANGED <<head, need, out, port_mapper, oplog_index_mapper,
                                events, trace, current_state>>
            ELSE /\ out' = Append(out, log_line)
                 /\ head' = [head EXCEPT ![i] = <<>>]
                 /\ need' = {i}
                 /\ port_mapper' = r.port_mapper
                 /\ oplog_index_mapper' = r.oplog_index_mapper
                 /\ IF ~r.ok
                    THEN /\ pc' = "aborted"
                         /\ exit_code' = <<1>>
                         /\ UNCHANGED <<events, trace, current_state>>
                    ELSE /\ events' = Append(events, r.event)
                         /\ IF IndexRaises(current_state, r.event)
                            THEN /\ pc' = "aborted"
                                 /\ exit_code' = <<1>>
                                 /\ trace' = Append(trace, current_state)
                                 /\ UNCHANGED current_state
                            ELSE /\ current_state' = update_state(current_state, r.event)
                                 /\ trace' = [k \in 1..(Len(trace) + 1) |-> current_state']
                                 /\ UNCHANGED <<pc, exit_code>>
    /\ UNCHANGED <<files, line_number, last_ts, read, rendered>>

(***************************************************************************)
LoopBody ==
    /\ pc = "loop"
    /\ need = {}
    /\ \E i \in HeapMins(head) :
        LET log_line == head[i][1]
            r        == ParseLogLine(log_line, port_mapper, oplog_index_mapper)
        IN  IF HeapRaises(head)
            THEN /\ pc' = "aborted"
                 /\ exit_code' = <<1>>
                 /\ UNCHANGED <<head, need, out, port_mapper, oplog_index_mapper,
                                events, trace, current_state>>
            ELSE /\ out' = Append(out, log_line)
                 /\ head' = [head EXCEPT ![i] = <<>>]
                 /\ need' = {i}
                 /\ port_mapper' = r.port_mapper
                 /\ oplog_index_mapper' = r.oplog_index_mapper
                 /\ IF ~r.ok
                    THEN /\ pc' = "aborted"
                         /\ exit_code' = <<1>>
                         /\ UNCHANGED <<events, trace, current_state>>
                    ELSE /\ events' = Append(events, r.event)
                         /\ trace' = Append(trace, current_state)
                         /\ IF IndexRaises(current_state, r.event)
                            THEN /\ pc' = "aborted"
                                 /\ exit_code' = <<1>>
                                 /\ UNCHANGED current_state
                            ELSE /\ current_state' = update_state(current_state, r.event)
                                 /\ UNCHANGED <<pc, exit_code>>
    /\ UNCHANGED <<files, line_number, last_ts, read, rendered>>

(***************************************************************************)
(* The merge is exhausted: main renders the trace and ends.                *)
(***************************************************************************)
Render ==
    /\ pc = "loop"
    /\ need = {}
    /\ \A i \in Sources : head[i] = <<>>
    /\ rendered' = <<trace>>
    /\ pc' = "done"
    /\ exit_code' = <<0>>
    /\ UNCHANGED <<files, line_number, last_ts, head, need, read, out, port_mapper,
                   oplog_index_mapper, events, trace, current_state>>

Next ==
    \/ \E i \in Sources : Gen(i)
    \/ LoopBody
    \/ Render

Spec == Init /\ [][Next]_vars

(***************************************************************************)
(* Properties                                                              *)
(***************************************************************************)
\* The source a yielded or pending LogLine was read from.
SourceOf(log_line) == CHOOSE i \in Sources : log_line \in Range(read[i])

\* The LogLines of source i among those yielded, in the order yielded.
YieldedOf(i) == SelectSeq(out, LAMBDA e : e \in Range(read[i]))

\* The LogLines gen(i) has produced and the merge has passed on.
ConsumedOf(i) ==
    SubSeq(read[i], 1, Len(read[i]) - (IF head[i] # <<>> THEN 1 ELSE 0))

\* C1: the files being sorted by timestamp each, what merge_log_streams has
\* yielded is in non-decreasing timestamp order, holds every event it took
\* from a source exactly once, and holds the events of one source in the
\* order of that source; when the merge ends these are all the events.
C1_MergeOrder ==
    /\ \A k \in 1..(Len(out) - 1) : out[k].timestamp <= out[k + 1].timestamp
    /\ \A k \in DOMAIN out :
          /\ \E i \in Sources : out[k] \in Range(read[i])
          /\ \A j \in 1..(k - 1) : out[j] # out[k]
    /\ \A i \in Sources : YieldedOf(i) = ConsumedOf(i)
    /\ pc = "done" => \A i \in Sources : YieldedOf(i) = read[i]

\* A finished merge of three events that interleaves two sources and holds
\* two events of one source with the same timestamp.
C1_Witness ==
    /\ pc = "done"
    /\ \E j, k, l \in DOMAIN out :
          /\ j < k /\ k < l
          /\ SourceOf(out[j]) = SourceOf(out[l])
          /\ SourceOf(out[j]) # SourceOf(out[k])
          /\ out[j].timestamp = out[k].timestamp
          /\ out[k].timestamp < out[l].timestamp

\* Two entries of the heap come from different sources and have one timestamp.
HeapTie ==
    \E i, j \in Sources :
        /\ i # j /\ head[i] # <<>> /\ head[j] # <<>>
        /\ head[i][1].timestamp = head[j][1].timestamp

\* C9: when events of different sources have the same timestamp, comparing
\* them raises no error and exactly one of them is the next to be yielded,
\* so the order of the merged stream is fixed by the input.
C9_TieDeterminism ==
    (pc = "loop" /\ need = {} /\ HeapTie) =>
        /\ ~HeapRaises(head)
        /\ Cardinality(HeapMins(head)) = 1

\* A merge that ran to its end and yielded two events of different sources
\* with the same timestamp one after the other.
C9_Witness ==
    /\ pc = "done"
    /\ \E k \in 1..(Len(out) - 1) :
          /\ out[k].timestamp = out[k + 1].timestamp
          /\ SourceOf(out[k]) # SourceOf(out[k + 1])

\* The snapshots of the run in order: the trace, then the current state.
Snapshots == Append(trace, current_state)

\* C2: for consecutive snapshots s, s' that update_state made from event e,
\* log, state and commitPoint of s' are those of s at every server id but
\* e.server_id, are those of e at e.server_id, and action,
\* globalCurrentTerm and serverLogLocation of s' are e's action, term and
\* location.
C2_DeltaLocality ==
    \A k \in DOMAIN events :
        LET e  == events[k]
            s  == Snapshots[k]
            s2 == Snapshots[k + 1]
        IN  e.server_id < n_servers =>
              /\ DOMAIN s2.log = DOMAIN s.log
              /\ DOMAIN s2.state = DOMAIN s.state
              /\ DOMAIN s2.commitPoint = DOMAIN s.commitPoint
              /\ \A id \in 0..(n_servers - 1) :
                    IF id = e.server_id
                    THEN /\ s2.log[id + 1] = e.log
                         /\ s2.state[id + 1] = e.state
                         /\ s2.commitPoint[id + 1] = e.commitPoint
                    ELSE /\ s2.log[id + 1] = s.log[id + 1]
                         /\ s2.state[id + 1] = s.state[id + 1]
                         /\ s2.commitPoint[id + 1] = s.commitPoint[id + 1]
              /\ s2.action = e.action
              /\ s2.globalCurrentTerm = e.term
              /\ s2.serverLogLocation = e.location

\* Two events of different servers applied one after the other, the second
\* with another term, log or commit point than the state before it.
C2_Witness ==
    \E k \in DOMAIN events :
        /\ k > 1
        /\ events[k].server_id < n_servers
        /\ events[k - 1].server_id < n_servers
        /\ events[k].server_id # events[k - 1].server_id
        /\ Snapshots[k + 1].commitPoint # Snapshots[k].commitPoint
        /\ Snapshots[k + 1].state # Snapshots[k].state

\* C3: the trace given to the renderer is every snapshot from the initial
\* one through the state the last event produced: after N >= 1 events it
\* has N + 1 snapshots and ends with the state after the N-th event.
C3_RenderedTraceComplete ==
    (rendered # <<>> /\ Len(events) >= 1) =>
        /\ Len(rendered[1]) = Len(events) + 1
        /\ rendered[1][Len(rendered[1])] = current_state

\* The port a yielded line reports.
ReportedPort(k) == out[k].obj.host[2]

\* The optimes server `port` has reported in its oplogs in the lines 1..k.
OwnOptimes(port, k) ==
    UNION {{out[j].obj.state.log[x].ts : x \in DOMAIN out[j].obj.state.log} :
              j \in {j \in 1..k : ReportedPort(j) = port}}

\* C4: an event whose commit point optime is neither the null optime nor an
\* optime of an oplog the same server has reported, in this or an earlier
\* event, is not translated.
C4_UnknownOplogReferenceFails ==
    \A k \in DOMAIN events :
        out[k].obj.state.commitPoint.ts
            \in {NullOptime} \cup OwnOptimes(ReportedPort(k), k)

RECURSIVE ObservedOptimes(_, _)
\* The optimes of the oplogs server `port` reported in the lines 1..k, in
\* the order observed.
ObservedOptimes(port, k) ==
    IF k = 0 THEN <<>>
    ELSE ObservedOptimes(port, k - 1) \o
         (IF ReportedPort(k) = port
          THEN [x \in DOMAIN out[k].obj.state.log |-> out[k].obj.state.log[x].ts]
          ELSE <<>>)

RECURSIVE Distinct(_)
\* A sequence without the repetitions of its elements.
Distinct(seq) ==
    IF seq = <<>> THEN <<>>
    ELSE LET d == Distinct(SubSeq(seq, 1, Len(seq) - 1))
             x == seq[Len(seq)]
         IN  IF x \in Range(d) THEN d ELSE Append(d, x)

\* C5: the i-th distinct optime (from 0) observed for a server in the
\* translated events has index i.
C5_IndexMonotonic ==
    \A k \in DOMAIN events :
        LET d == Distinct(ObservedOptimes(ReportedPort(k), Len(events)))
        IN  \A i \in DOMAIN d : oplog_index_mapper[d[i]] = i - 1

\* The number of distinct ports reported before the first line of port(k).
FirstSeenId(k) ==
    LET first == Min({j \in 1..k : ReportedPort(j) = ReportedPort(k)})
    IN  Cardinality({ReportedPort(j) : j \in 1..(first - 1)})

\* C6: the ports mapped are mapped to different ids; the events are
\* translated in timestamp order; and the id of every event is the number
\* of distinct ports that appeared before its port first did, so equal
\* ports have equal ids and K ports have the ids 0..K-1 in that order.
C6_ServerIdStability ==
    /\ \A a, b \in DOMAIN port_mapper : port_mapper[a] = port_mapper[b] => a = b
    /\ \A k \in DOMAIN events :
          /\ events[k].server_id = FirstSeenId(k)
          /\ \A j \in 1..(k - 1) : events[j].timestamp <= events[k].timestamp

\* Three events of two ports; the port seen first is not in the first file
\* and is seen again after the other port.
C6_Witness ==
    /\ Len(events) >= 3
    /\ SourceOf(out[1]) # 1
    /\ events[1].server_id = 0
    /\ events[2].server_id = 1
    /\ events[3].server_id = 0

\* C7: the term and the commit point term of an event are those of its
\* line, 0 in place of -1, and so never -1.
C7_TermNormalization ==
    \A k \in DOMAIN events :
        LET raft_mongo == out[k].obj.state
        IN  /\ events[k].term = (IF raft_mongo.term = -1 THEN 0 ELSE raft_mongo.term)
            /\ events[k].commitPoint.term =
                  (IF raft_mongo.commitPoint.t = -1 THEN 0 ELSE raft_mongo.commitPoint.t)
            /\ events[k].term # -1
            /\ events[k].commitPoint.term # -1

\* Events translated from lines with term -1 and commit point term -1, and
\* from a line with another negative term.
C7_Witness ==
    /\ \E k \in DOMAIN events :
          /\ out[k].obj.state.term = -1
          /\ out[k].obj.state.commitPoint.t = -1
    /\ \E k \in DOMAIN events :
          /\ out[k].obj.state.term = -2
          /\ out[k].obj.state.commitPoint.t = 1

\* The first snapshot of the run.
InitialSnapshot == Snapshots[1]

\* C8: in the initial snapshot every server is a Follower with an empty log
\* and the commit point at index 0, and the global term is 0.
C8_InitialSnapshotNormalized ==
    /\ \A k \in 1..n_servers :
          /\ InitialSnapshot.state[k] = "Follower"
          /\ InitialSnapshot.log[k] = <<>>
          /\ InitialSnapshot.commitPoint[k].index = 0
    /\ InitialSnapshot.globalCurrentTerm = 0

\* What makes the translation of line k fail whatever came before: an
\* unknown role label, an oplog with one optime at two positions, or a
\* commit point optime no line up to k has in its oplog.
MustFail(k) ==
    LET raft_mongo == out[k].obj.state
    IN  \/ raft_mongo.serverState \notin ServerStateNames
        \/ \E x, y \in DOMAIN raft_mongo.log :
              x # y /\ raft_mongo.log[x].ts = raft_mongo.log[y].ts
        \/ raft_mongo.commitPoint.ts \notin
              {NullOptime} \cup
              UNION {{out[j].obj.state.log[x].ts : x \in DOMAIN out[j].obj.state.log} :
                        j \in 1..k}

\* C10: a run that aborted has a non-zero exit status and has not rendered
\* the trace; a line that cannot be translated is the last one taken from
\* the merge and aborts the run; and a rendered trace means every line of
\* the merge was translated and applied.
C10_FailFast ==
    /\ pc = "aborted" => (exit_code \in {<<1>>, <<2>>} /\ rendered = <<>>)
    /\ \A k \in DOMAIN out :
          MustFail(k) => (pc = "aborted" /\ k = Len(out) /\ Len(events) = k - 1)
    /\ rendered # <<>> =>
          /\ pc = "done"
          /\ exit_code = <<0>>
          /\ Len(events) = Len(out)
          /\ Len(trace) = Len(out)
          /\ \A k \in DOMAIN events : events[k].server_id < n_servers

\* A run aborted by a line that cannot be translated, after two events
\* were translated and applied.
C10_Witness ==
    /\ pc = "aborted"
    /\ Len(events) = 2
    /\ Len(trace) = 2
    /\ Len(out) = 3
    /\ MustFail(3)

RECURSIVE OwnMapper(_, _)
\* The mapper server `port` would have after the lines 1..k if it had an
\* index space of its own: only its own oplogs registered.
OwnMapper(port, k) ==
    IF k = 0 THEN NewOplogIndexMapper
    ELSE IF ReportedPort(k) = port
         THEN RegisterLog(OwnMapper(port, k - 1), out[k].obj.state.log, 0).m
         ELSE OwnMapper(port, k - 1)

\* C11: the registrations of one server's events are not visible to the
\* events of another: every line is translated or rejected, and its commit
\* point resolved, as with a mapper that holds only the optimes of the
\* oplogs its own server reported.
C11_PerServerIndexSpaces ==
    \A k \in DOMAIN out :
        LET raft_mongo == out[k].obj.state
            reg == RegisterLog(OwnMapper(ReportedPort(k), k - 1), raft_mongo.log, 0)
            accepted == /\ reg.ok
                        /\ raft_mongo.commitPoint.ts \in DOMAIN reg.m
                        /\ raft_mongo.serverState \in ServerStateNames
        IN  /\ accepted <=> k \in DOMAIN events
            /\ k \in DOMAIN events =>
                  events[k].commitPoint.index = reg.m[raft_mongo.commitPoint.ts]

\* The optimes of the oplog line k reports, in order.
ReportedOptimes(k) ==
    [x \in DOMAIN out[k].obj.state.log |-> out[k].obj.state.log[x].ts]

\* C12: an event is translated only if every optime its oplog shows for
\* the first time for its server stands at the position that equals the
\* number of optimes the server had shown before it, which an oplog that
\* lost, replaced or reordered entries does not do.
C12_NonMonotonicLogFails ==
    \A k \in DOMAIN events :
        LET log   == ReportedOptimes(k)
            known == OwnOptimes(ReportedPort(k), k - 1)
        IN  \A x \in DOMAIN log :
                LET before == known \cup {log[y] : y \in 1..(x - 1)}
                IN  log[x] \notin before => x - 1 = Cardinality(before)

\* The last translated event was applied by update_state.
LastApplied == Len(events) >= 1 /\ events[Len(events)].server_id < n_servers

\* C13: the current state is appended to the trace before update_state
\* replaces it: with N events translated the trace has N snapshots, the
\* first is the initial state, the one after the k-th is the result of
\* applying the first k events, the state after all N events is the
\* current state and is not in the trace, and this trace is the one
\* rendered.
C13_AccumulationLoop ==
    /\ Len(trace) = Len(events)
    /\ Snapshots[1] = InitialState(n_servers)
    /\ \A k \in 1..(Len(trace) - 1) : trace[k + 1] = update_state(trace[k], events[k])
    /\ LastApplied =>
          /\ current_state = update_state(trace[Len(trace)], events[Len(events)])
          /\ current_state \notin Range(trace)
    /\ rendered # <<>> => rendered[1] = trace

\* A finished run of three events: three snapshots rendered, the state
\* after the third event not among them.
C13_Witness ==
    /\ pc = "done"
    /\ Len(events) = 3
    /\ Len(rendered[1]) = 3
    /\ rendered[1][1] = InitialState(n_servers)
    /\ current_state \notin Range(rendered[1])

\* C14: update_state does not change the state it is given: a step keeps
\* every snapshot of the trace as it was recorded, and the snapshot a step
\* records is the state update_state was given, as it was before the call.
C14_HistoryImmutable ==
    [][/\ Len(trace') >= Len(trace)
       /\ \A k \in DOMAIN trace : trace'[k] = trace[k]
       /\ trace' # trace =>
             /\ Len(trace') = Len(trace) + 1
             /\ trace'[Len(trace')] = current_state]_vars

\* Three snapshots recorded, each different from the one before it, the
\* first still the initial state after the later events were applied.
C14_Witness ==
    /\ Len(trace) = 3
    /\ LastApplied
    /\ trace[1] = InitialState(n_servers)
    /\ trace[2] # trace[1]
    /\ trace[3] # trace[2]
    /\ current_state # trace[3]

\* C15: of every source at most one event is read and not yet yielded, so
\* at most one per source is in flight; before the first event is yielded
\* no source was read beyond its first event; and while the loop runs
\* every event yielded so far has been translated and applied to the
\* current state, so the next one is pulled only after that.
C15_StreamingBound ==
    /\ \A i \in Sources :
          /\ Len(read[i]) - Len(YieldedOf(i)) <= 1
          /\ Len(read[i]) - Len(YieldedOf(i)) = (IF head[i] # <<>> THEN 1 ELSE 0)
    /\ out = <<>> => \A i \in Sources : Len(read[i]) <= 1
    /\ pc = "loop" =>
          /\ Len(events) = Len(out)
          /\ Len(trace) = Len(out)
          /\ out # <<>> => current_state.serverLogLocation = out[Len(out)].location

\* An event was yielded and applied, and the merge holds one event of
\* each of its sources, of which there are at least two.
C15_Witness ==
    /\ pc = "loop"
    /\ need = {}
    /\ Len(out) = 1
    /\ Len(events) = 1
    /\ n_servers >= 2
    /\ \A i \in Sources : head[i] # <<>> /\ Len(read[i]) >= 1

Max(S) == CHOOSE x \in S : \A y \in S : y <= x

\* The number of events update_state has applied.
AppliedCount ==
    IF events = <<>> \/ LastApplied THEN Len(events) ELSE Len(events) - 1

\* C16: in the current state every server has the log, state and commit
\* point of the latest applied event of that server, or the initial values
\* if it has none, and the global term is the term of the latest applied
\* event of any server (-1 before the first), whatever terms came before.
C16_LastWriterWins ==
    /\ \A id \in 0..(n_servers - 1) :
          LET ks == {k \in 1..AppliedCount : events[k].server_id = id}
          IN  IF ks = {}
              THEN /\ current_state.log[id + 1] = <<>>
                   /\ current_state.state[id + 1] = "Follower"
                   /\ current_state.commitPoint[id + 1] = [term |-> -1, index |-> 0]
              ELSE /\ current_state.log[id + 1] = events[Max(ks)].log
                   /\ current_state.state[id + 1] = events[Max(ks)].state
                   /\ current_state.commitPoint[id + 1] = events[Max(ks)].commitPoint
    /\ current_state.globalCurrentTerm =
          (IF AppliedCount = 0 THEN -1 ELSE events[AppliedCount].term)

\* Two events of one server applied, the second with a smaller term and
\* another commit point: the global term went down from one snapshot to
\* the next.
C16_Witness ==
    /\ Len(events) >= 2
    /\ LastApplied
    /\ events[Len(events)].server_id = events[Len(events) - 1].server_id
    /\ events[Len(events)].term < events[Len(events) - 1].term
    /\ events[Len(events)].commitPoint # events[Len(events) - 1].commitPoint
    /\ current_state.globalCurrentTerm < trace[Len(trace)].globalCurrentTerm

RECURSIVE MapperAfter(_)
\* The mapper of main after the lines 1..k, all of them translated.
MapperAfter(k) ==
    IF k = 0 THEN NewOplogIndexMapper
    ELSE RegisterLog(MapperAfter(k - 1), out[k].obj.state.log, 0).m

\* C17: the oplog of an event is registered before its commit point is
\* looked up: a line with a known role label and an oplog set_index
\* accepts, whose commit point optime no earlier line had in its oplog and
\* its own oplog has, is translated, with the position of that entry as
\* the index of the commit point.
C17_RegisterBeforeResolve ==
    \A k \in DOMAIN out :
        LET raft_mongo == out[k].obj.state
            log == ReportedOptimes(k)
            cp  == raft_mongo.commitPoint.ts
        IN  (/\ cp \in Range(log)
             /\ cp \notin DOMAIN MapperAfter(k - 1)
             /\ RegisterLog(MapperAfter(k - 1), raft_mongo.log, 0).ok
             /\ raft_mongo.serverState \in ServerStateNames)
            => /\ k \in DOMAIN events
               /\ \E x \in DOMAIN log :
                     log[x] = cp /\ events[k].commitPoint.index = x - 1

\* An event translated from a line whose oplog of two entries has the
\* commit point optime, seen for the first time, as its second entry.
C17_Witness ==
    \E k \in DOMAIN events :
        /\ Len(ReportedOptimes(k)) = 2
        /\ ReportedOptimes(k)[2] = out[k].obj.state.commitPoint.ts
        /\ out[k].obj.state.commitPoint.ts \notin DOMAIN MapperAfter(k - 1)
        /\ events[k].commitPoint.index = 1

\* C18: in every snapshot the log, state and commitPoint tuples have
\* n_servers entries each, n_servers being the number of log files; an
\* event with a server id that is not below n_servers aborts the run and
\* leaves the current state as it was.
C18_FixedWidth ==
    /\ \A k \in DOMAIN Snapshots :
          /\ Snapshots[k].n_servers = Len(files.names)
          /\ Len(Snapshots[k].log) = Snapshots[k].n_servers
          /\ Len(Snapshots[k].state) = Snapshots[k].n_servers
          /\ Len(Snapshots[k].commitPoint) = Snapshots[k].n_servers
    /\ \A k \in DOMAIN events :
          events[k].server_id >= Len(files.names) =>
              /\ pc = "aborted"
              /\ exit_code = <<1>>
              /\ k = Len(events)
              /\ current_state = trace[k]
              /\ rendered = <<>>

\* Two files and a third port: the events of the first two ports were
\* applied, the event of the third aborted the run.
C18_Witness ==
    /\ Len(files.names) = 2
    /\ Len(events) = 3
    /\ events[3].server_id = 2
    /\ pc = "aborted"
    /\ current_state = trace[3]
    /\ current_state # trace[2]

====
